---- MODULE Spec2Model ----
(***************************************************************************)
(* Model of the MRI preprocessing repository: the space-aware container    *)
(* (ProcessingData), the six stages and the orchestrator entry point.      *)
(*                                                                         *)
(* Images are symbolic values: a record that says in which space the       *)
(* volume lives, what it holds and which engine call produced it.  The     *)
(* external image engine (ANTsPy) is modelled at its call sites only.      *)
(***************************************************************************)
EXTENDS Integers, Sequences, FiniteSets, TLC

VARIABLES
    data,            \* the ProcessingData container of the subject
    last,            \* the last operation invoked on it and how it ended
    nCalls,          \* number of operations invoked so far
    invoked,         \* names of the stages whose run() has been entered
    templateWrites,  \* every assignment to template[*]: field, was n2t set
    maskings,        \* every multiplicative masking: stage, operand spaces
    cache,           \* per stage instance: is its template / atlas loaded
    reads,           \* per stage instance: how often it read that file
    summary,         \* the last get_processing_summary() result handed out
    followed,        \* has the caller followed step_order, and how far
    img_data,        \* voxel arrays handed to the fallback segmentation
    seg_result,      \* what the fallback segmentation made of them
    roi_input,       \* atlas, tissue map and statistics of an ROI extraction
    roi_output,      \* the feature arrays extracted from them
    batch            \* the batch driver: its inputs, position and tallies

containerVars ==
    <<data, last, nCalls, invoked, templateWrites, maskings, cache, reads,
      summary, followed>>

vars == <<data, last, nCalls, invoked, templateWrites, maskings, cache,
          reads, summary, followed, img_data, seg_result, roi_input,
          roi_output, batch>>

\* Number of operations a caller invokes on one container.
MaxCalls == 3

\* ------------------------------------------------------------------------
\* Symbolic values
\* ------------------------------------------------------------------------

\* Python's None for a container field.
None ==
    [space |-> "none", what |-> "none", by |-> "none", interp |-> "none",
     srcBy |-> "none", xf |-> "none", names |-> {}]

\* A volume in `space` holding `what`, produced by engine call `by`.
Val(space, what, by) ==
    [space |-> space, what |-> what, by |-> by, interp |-> "none",
     srcBy |-> "none", xf |-> "none", names |-> {}]

\* ants.image_read of the subject's MRI (native acquisition space).
ImageReadMRI == Val("native", "image", "image_read")

\* ants.image_read of the registration template (template space).
ImageReadTemplate == Val("template", "image", "image_read")

\* antspynet.brain_extraction / ants.get_mask: a mask on the grid of `image`.
BrainMaskOf(image, method) == Val(image.space, "brain_mask", method)

\* image * mask: the product lives on the grid of the left operand.
Mul(image, mask) ==
    [space |-> image.space, what |-> image.what, by |-> "mul",
     interp |-> "none", srcBy |-> mask.by, xf |-> "none", names |-> {}]

\* ants.apply_transforms(fixed, moving, transformlist, interpolator).
ApplyTransforms(fixed, moving, transformlist, interpolator) ==
    [space |-> fixed.space, what |-> moving.what, by |-> "apply_transforms",
     interp |-> interpolator, srcBy |-> moving.by, xf |-> transformlist.what,
     names |-> {}]

\* ants.registration(fixed, moving, type_of_transform).
AntsRegistration(fixed, moving, type) ==
    [warpedmovout  |-> Val(fixed.space, moving.what, type),
     fwdtransforms |-> Val("transform", "native_to_template", type),
     invtransforms |-> Val("transform", "template_to_native", type)]

NativeKeys ==
    {"image", "original_image", "brain_mask", "segmentation_labels",
     "gm_probability", "wm_probability", "csf_probability"}

TemplateKeys ==
    {"image", "brain_mask", "segmentation_labels", "gm_probability",
     "wm_probability", "csf_probability", "roi_labels", "roi_features"}

Interpolators == {"linear", "nearestNeighbor"}

\* ------------------------------------------------------------------------
\* ProcessingData
\* ------------------------------------------------------------------------

EmptyMetrics == [keys |-> {}, processing_steps |-> <<>>, num_steps |-> 0]

\* ProcessingData.__init__(primary_image, subject_id).
ProcessingDataInit(primary_image, subject_id) ==
    [subject_id |-> subject_id,
     native |->
        [image |-> primary_image,
         original_image |-> primary_image,
         brain_mask |-> None,
         segmentation_labels |-> None,
         gm_probability |-> None,
         wm_probability |-> None,
         csf_probability |-> None],
     template |->
        [image |-> None,
         brain_mask |-> None,
         segmentation_labels |-> None,
         gm_probability |-> None,
         wm_probability |-> None,
         csf_probability |-> None,
         roi_labels |-> None,
         roi_features |-> None],
     transforms |-> [native_to_template |-> None, template_to_native |-> None],
     processing_steps |-> <<>>,
     qc_metrics |-> EmptyMetrics]

\* Result of running a piece of code on a container: the container after it,
\* the exception it raised ("" when it returned), and what it did on the way.
Res(d, raised, tw, mu) == [d |-> d, raised |-> raised, tw |-> tw, mu |-> mu]

\* The same, with the engine methods the code called on the way, in order.
Ran(r, ran) ==
    [d |-> r.d, raised |-> r.raised, tw |-> r.tw, mu |-> r.mu, ran |-> ran]

\* The same, with what became of the stage instance's cached resource
\* (self.template / self.atlas): is it loaded after the call, and was the
\* file read during the call.
Loads(r, loaded, read) == [loaded |-> loaded, read |-> read] @@ r

\* One assignment to template[field], with whether the forward transform
\* was set in the container at that moment.
TWrite(d, field) ==
    [field |-> field, n2tSet |-> d.transforms.native_to_template # None]

\* transform_to_template without its two prerequisite checks.
TransformToTemplateUnguarded(d, field_name, interpolator) ==
    IF d.native[field_name] # None
    THEN Res([d EXCEPT !.template[field_name] =
                   ApplyTransforms(d.template.image,
                                   d.native[field_name],
                                   d.transforms.native_to_template,
                                   interpolator)],
             "", {TWrite(d, field_name)}, {})
    ELSE Res(d, "", {}, {})

\* transform_to_template storing the native volume itself, not resampled.
TransformToTemplateCopies(d, field_name, interpolator) ==
    IF d.transforms.native_to_template = None
    THEN Res(d, "", {}, {})
    ELSE IF d.native[field_name] # None /\ d.template.image # None
         THEN Res([d EXCEPT !.template[field_name] = d.native[field_name]],
                  "", {TWrite(d, field_name)}, {})
         ELSE Res(d, "", {}, {})

\* ProcessingData.transform_to_template(field_name, interpolator).
TransformToTemplate(d, field_name, interpolator) ==
    IF d.transforms.native_to_template = None
    THEN Res(d, "", {}, {})
    ELSE IF d.native[field_name] # None /\ d.template.image # None
         THEN Res([d EXCEPT !.template[field_name] =
                        ApplyTransforms(d.template.image,
                                        d.native[field_name],
                                        d.transforms.native_to_template,
                                        interpolator)],
                  "", {TWrite(d, field_name)}, {})
         ELSE Res(d, "", {}, {})

\* A probe that takes the stored native image for a brain extraction.
has_brain_extractionByImage(d) == d.native.image # None

has_brain_extraction(d) == d.native.brain_mask # None

has_registration(d) == d.template.image # None

\* A probe that takes the label image for a segmentation result.
has_segmentationByLabels(d) == d.native.segmentation_labels # None

has_segmentation(d) ==
    d.native.gm_probability # None \/ d.template.gm_probability # None

\* No summary has been taken.
NoSummary ==
    [taken |-> FALSE, subject_id |-> "", processing_steps |-> <<>>,
     steps_shared |-> FALSE, has_brain_mask |-> FALSE,
     has_registration |-> FALSE, has_segmentation |-> FALSE,
     qc_metrics |-> EmptyMetrics]

\* A summary that hands out the container's own list of steps.
GetProcessingSummaryNoCopy(d) ==
    [taken |-> TRUE, subject_id |-> d.subject_id,
     processing_steps |-> d.processing_steps, steps_shared |-> TRUE,
     has_brain_mask |-> has_brain_extraction(d),
     has_registration |-> has_registration(d),
     has_segmentation |-> has_segmentation(d),
     qc_metrics |-> d.qc_metrics]

\* ProcessingData.get_processing_summary: processing_steps.copy() is a new
\* list (steps_shared says whether the summary's list is the container's
\* own list object), qc_metrics.copy() a new dictionary.
GetProcessingSummary(d) ==
    [taken |-> TRUE, subject_id |-> d.subject_id,
     processing_steps |-> d.processing_steps, steps_shared |-> FALSE,
     has_brain_mask |-> has_brain_extraction(d),
     has_registration |-> has_registration(d),
     has_segmentation |-> has_segmentation(d),
     qc_metrics |-> d.qc_metrics]

\* What a holder of summary `s` reads in it while the container is `d`:
\* list.append changes a shared list in place, and no stage changes a
\* qc_metrics dictionary in place (quality control binds a new one).
SummaryView(s, d) ==
    [s EXCEPT !.processing_steps =
                  IF s.steps_shared THEN d.processing_steps ELSE @]

\* ------------------------------------------------------------------------
\* BaseProcessor / SkullStripping
\* ------------------------------------------------------------------------

\* A stage configuration's 'methods' mapping: the method names it lists
\* (present) and those among them whose 'enabled' flag is true; keys is the
\* order in which the mapping lists them, when that order is of interest.
MethodsConfig(present, enabled) ==
    [present |-> present, enabled |-> enabled, keys |-> <<>>]

\* The 'methods' mapping that lists `keys` in this order.
OrderedConfig(keys, enabled) ==
    [present |-> {keys[i] : i \in 1..Len(keys)}, enabled |-> enabled,
     keys |-> keys]

\* BaseProcessor._is_method_enabled.
IsMethodEnabled(cfg, method_name) ==
    method_name \in cfg.present /\ method_name \in cfg.enabled

\* SkullStripping.methods, in declaration order.
SkullMethods == <<"antspynet", "ants">>

\* One multiplicative masking performed by `stage`.
Masking(stage, left, right) ==
    [stage |-> stage, left |-> left.space, right |-> right.space]

\* A skull-stripping method that stores its mask in the template mapping.
SkullExtractionIntoTemplate(d, method, engineFails) ==
    IF engineFails
    THEN Res(d, "EngineError", {}, {})
    ELSE LET brain_mask  == BrainMaskOf(d.native.image, method)
             brain_image == Mul(d.native.image, brain_mask)
         IN  Res([d EXCEPT !.native.image = brain_image,
                           !.template.brain_mask = brain_mask,
                           !.processing_steps =
                               Append(@, "skull_stripping")],
                 "", {TWrite(d, "brain_mask")},
                 {Masking("skull_stripping", d.native.image, brain_mask)})

\* A skull-stripping method that also replaces the original image.
SkullExtractionOverwritesOriginal(d, method, engineFails) ==
    IF engineFails
    THEN Res(d, "EngineError", {}, {})
    ELSE LET brain_mask  == BrainMaskOf(d.native.image, method)
             brain_image == Mul(d.native.image, brain_mask)
         IN  Res([d EXCEPT !.native.image = brain_image,
                           !.native.original_image = brain_image,
                           !.native.brain_mask = brain_mask,
                           !.processing_steps =
                               Append(@, "skull_stripping")],
                 "", {},
                 {Masking("skull_stripping", d.native.image, brain_mask)})

\* A skull extraction that stores image and mask and logs nothing.
SkullExtractionUnlogged(d, method, engineFails) ==
    IF engineFails
    THEN Res(d, "EngineError", {}, {})
    ELSE LET brain_mask  == BrainMaskOf(d.native.image, method)
             brain_image == Mul(d.native.image, brain_mask)
         IN  Res([d EXCEPT !.native.image = brain_image,
                           !.native.brain_mask = brain_mask],
                 "", {},
                 {Masking("skull_stripping", d.native.image, brain_mask)})

\* SkullStripping.antspynet_extraction / ants_extraction: the two methods
\* differ only in the engine call that yields the mask.
SkullExtraction(d, method, engineFails) ==
    IF engineFails
    THEN Res(d, "EngineError", {}, {})
    ELSE LET brain_mask  == BrainMaskOf(d.native.image, method)
             brain_image == Mul(d.native.image, brain_mask)
         IN  Res([d EXCEPT !.native.image = brain_image,
                           !.native.brain_mask = brain_mask,
                           !.processing_steps =
                               Append(@, "skull_stripping")],
                 "", {},
                 {Masking("skull_stripping", d.native.image, brain_mask)})

\* BaseProcessor.run_methods: every enabled method, in declaration order; an
\* exception of a method ends the loop and keeps what earlier methods wrote.
RECURSIVE RunMethods(_, _, _, _)
RunMethods(r, methods, cfg, failing) ==
    IF methods = <<>> \/ r.raised # ""
    THEN r
    ELSE LET m == Head(methods)
         IN  IF IsMethodEnabled(cfg, m)
             THEN LET o == SkullExtraction(r.d, m, m \in failing)
                  IN  RunMethods(Ran(Res(o.d, o.raised, r.tw \cup o.tw,
                                         r.mu \cup o.mu),
                                     Append(r.ran, m)),
                                 Tail(methods), cfg, failing)
             ELSE RunMethods(r, Tail(methods), cfg, failing)

\* A dispatcher that walks the configuration's keys instead of the stage's
\* own method table.
SkullStrippingRunConfigOrder(d, cfg, failing) ==
    RunMethods(Ran(Res(d, "", {}, {}), <<>>), cfg.keys, cfg, failing)

\* SkullStripping.run.
SkullStrippingRun(d, cfg, failing) ==
    RunMethods(Ran(Res(d, "", {}, {}), <<>>), SkullMethods, cfg, failing)

\* ------------------------------------------------------------------------
\* Segmentation
\* ------------------------------------------------------------------------

ClassName(i) == <<"class1", "class2", "class3", "class4">>[i]

\* ants.atropos: a label image and one probability image per class.
Atropos(image, n) ==
    [segmentation |-> Val(image.space, "segmentation", "atropos"),
     probabilityimages |->
        [i \in 1..n |-> Val(image.space, ClassName(i), "atropos")]]

\* A fallback that masks the native image with the template-space mask.
SimpleSegmentationTemplateMask(d, positiveVoxels) ==
    LET mu == IF d.template.brain_mask # None
              THEN {Masking("segmentation", d.native.image,
                            d.template.brain_mask)}
              ELSE {}
    IN  IF ~positiveVoxels
        THEN [raised |-> "ValueError", mu |-> mu, seg |-> None,
              probabilityimages |-> <<>>]
        ELSE [raised |-> "", mu |-> mu,
              seg |-> Val(d.native.image.space, "segmentation", "fallback"),
              probabilityimages |->
                 [i \in 1..3 |->
                     Val(d.native.image.space, ClassName(i), "fallback")]]

\* A fallback that returns three empty classes instead of raising.
SimpleSegmentationNeverRaises(d, positiveVoxels) ==
    [raised |-> "",
     mu |-> IF d.native.brain_mask # None
            THEN {Masking("segmentation", d.native.image,
                          d.native.brain_mask)}
            ELSE {},
     seg |-> Val(d.native.image.space, "segmentation", "fallback"),
     probabilityimages |->
        [i \in 1..3 |-> Val(d.native.image.space, ClassName(i), "fallback")]]

\* Segmentation._simple_segmentation: percentile thresholding of the
\* (masked) native image; positiveVoxels says whether any voxel is > 0.
SimpleSegmentation(d, positiveVoxels) ==
    LET mu == IF d.native.brain_mask # None
              THEN {Masking("segmentation", d.native.image,
                            d.native.brain_mask)}
              ELSE {}
    IN  IF ~positiveVoxels
        THEN [raised |-> "ValueError", mu |-> mu, seg |-> None,
              probabilityimages |-> <<>>]
        ELSE [raised |-> "", mu |-> mu,
              seg |-> Val(d.native.image.space, "segmentation", "fallback"),
              probabilityimages |->
                 [i \in 1..3 |->
                     Val(d.native.image.space, ClassName(i), "fallback")]]

\* img_data = image.numpy(), multiplied voxel by voxel by the brain mask
\* when the container has one (lines 101-106).
MaskedVoxels(image, mask, has_mask) ==
    [i \in 1..Len(image) |->
        IF has_mask THEN image[i] * mask[i] ELSE image[i]]

\* The k-th smallest (k = 1 is the minimum) of the values v[i], i \in idx.
OrderStat(v, idx, k) ==
    CHOOSE x \in {v[i] : i \in idx} :
        /\ Cardinality({i \in idx : v[i] <= x}) >= k
        /\ Cardinality({i \in idx : v[i] < x}) < k

\* 100 * np.percentile(v[idx], q): linear interpolation between the two
\* order statistics around the position q/100 * (n - 1).
Percentile100(v, idx, q) ==
    LET n   == Cardinality(idx)
        t   == q * (n - 1)
        lo  == (t \div 100) + 1
        hi  == IF lo < n THEN lo + 1 ELSE lo
        rem == t % 100
    IN  100 * OrderStat(v, idx, lo)
        + rem * (OrderStat(v, idx, hi) - OrderStat(v, idx, lo))

\* A fallback whose three label assignments run in the opposite order.
SimpleSegmentationVoxelsReversed(image, mask, has_mask) ==
    LET img   == MaskedVoxels(image, mask, has_mask)
        brain == {i \in 1..Len(img) : img[i] > 0}
        p33   == Percentile100(img, brain, 33)
        p66   == Percentile100(img, brain, 66)
        l3    == [i \in 1..Len(img) |-> IF 100 * img[i] > p66 THEN 3 ELSE 0]
        l2    == [i \in 1..Len(img) |->
                     IF 100 * img[i] > p33 THEN 2 ELSE l3[i]]
        l1    == [i \in 1..Len(img) |-> IF img[i] > 0 THEN 1 ELSE l2[i]]
    IN  IF brain = {}
        THEN [raised |-> "ValueError", segmentation |-> <<>>, csf |-> <<>>,
              gm |-> <<>>, wm |-> <<>>, p33 |-> 0, p66 |-> 0]
        ELSE [raised |-> "",
              segmentation |-> l1,
              csf |-> [i \in 1..Len(img) |-> IF l1[i] = 1 THEN 1 ELSE 0],
              gm  |-> [i \in 1..Len(img) |-> IF l1[i] = 2 THEN 1 ELSE 0],
              wm  |-> [i \in 1..Len(img) |-> IF l1[i] = 3 THEN 1 ELSE 0],
              p33 |-> p33, p66 |-> p66]

\* Segmentation._simple_segmentation on voxel arrays (lines 100-137): the
\* label volume, the three probability volumes and the two thresholds
\* (times 100).
SimpleSegmentationVoxels(image, mask, has_mask) ==
    LET img   == MaskedVoxels(image, mask, has_mask)
        brain == {i \in 1..Len(img) : img[i] > 0}
        p33   == Percentile100(img, brain, 33)
        p66   == Percentile100(img, brain, 66)
        l1    == [i \in 1..Len(img) |-> IF img[i] > 0 THEN 1 ELSE 0]
        l2    == [i \in 1..Len(img) |->
                     IF 100 * img[i] > p33 THEN 2 ELSE l1[i]]
        l3    == [i \in 1..Len(img) |->
                     IF 100 * img[i] > p66 THEN 3 ELSE l2[i]]
    IN  IF brain = {}
        THEN [raised |-> "ValueError", segmentation |-> <<>>, csf |-> <<>>,
              gm |-> <<>>, wm |-> <<>>, p33 |-> 0, p66 |-> 0]
        ELSE [raised |-> "",
              segmentation |-> l3,
              csf |-> [i \in 1..Len(img) |-> IF l3[i] = 1 THEN 1 ELSE 0],
              gm  |-> [i \in 1..Len(img) |-> IF l3[i] = 2 THEN 1 ELSE 0],
              wm  |-> [i \in 1..Len(img) |-> IF l3[i] = 3 THEN 1 ELSE 0],
              p33 |-> p33, p66 |-> p66]

\* A segmentation without the except clause: the classifier's exception
\* leaves the stage.
AtroposSegmentationNoFallback(d, primaryRaises, nProb, positiveVoxels) ==
    LET at == Atropos(d.native.image, nProb)
        d1 == [d EXCEPT !.native.segmentation_labels = at.segmentation]
        d2 == IF nProb >= 3
              THEN [d1 EXCEPT
                       !.native.csf_probability = at.probabilityimages[1],
                       !.native.gm_probability = at.probabilityimages[2],
                       !.native.wm_probability = at.probabilityimages[3]]
              ELSE d1
    IN  IF primaryRaises
        THEN Ran(Res(d, "EngineError", {}, {}), <<"atropos">>)
        ELSE Ran(Res([d2 EXCEPT !.processing_steps =
                                    Append(@, "segmentation")],
                     "", {}, {}), <<"atropos">>)

\* Segmentation._atropos_segmentation: the classifier either raises
\* (primaryRaises) or returns nProb probability images.
AtroposSegmentation(d, primaryRaises, nProb, positiveVoxels) ==
    LET fb  == SimpleSegmentation(d, positiveVoxels)
        at  == Atropos(d.native.image, nProb)
        seg == IF primaryRaises THEN fb.seg ELSE at.segmentation
        pr  == IF primaryRaises THEN fb.probabilityimages
                                ELSE at.probabilityimages
        mu  == IF primaryRaises THEN fb.mu ELSE {}
        d1  == [d EXCEPT !.native.segmentation_labels = seg]
        d2  == IF Len(pr) >= 3
               THEN [d1 EXCEPT !.native.csf_probability = pr[1],
                               !.native.gm_probability = pr[2],
                               !.native.wm_probability = pr[3]]
               ELSE d1
        ran == IF primaryRaises THEN <<"atropos", "_simple_segmentation">>
                                ELSE <<"atropos">>
    IN  IF primaryRaises /\ fb.raised # ""
        THEN Ran(Res(d, fb.raised, {}, mu), ran)
        ELSE Ran(Res([d2 EXCEPT !.processing_steps =
                                    Append(@, "segmentation")],
                     "", {}, mu), ran)

\* Segmentation.run.
SegmentationRun(d, atroposEnabled, primaryRaises, nProb, positiveVoxels) ==
    IF atroposEnabled
    THEN AtroposSegmentation(d, primaryRaises, nProb, positiveVoxels)
    ELSE Res(d, "ValueError", {}, {})

\* ------------------------------------------------------------------------
\* Registration
\* ------------------------------------------------------------------------

\* A selection that prefers the lowest-precision enabled method.
SelectedMethodRigidFirst(cfg) ==
    IF "rigid" \notin cfg.present THEN "KeyError"
    ELSE IF "rigid" \in cfg.enabled THEN "Rigid"
    ELSE IF "affine" \notin cfg.present THEN "KeyError"
    ELSE IF "affine" \in cfg.enabled THEN "Affine"
    ELSE IF "syn" \notin cfg.present THEN "KeyError"
    ELSE IF "syn" \in cfg.enabled THEN "SyN"
    ELSE "none"

\* A selection that falls back to rigid registration when none is enabled.
SelectedMethodDefaultsRigid(cfg) ==
    IF "syn" \notin cfg.present THEN "KeyError"
    ELSE IF "syn" \in cfg.enabled THEN "SyN"
    ELSE IF "affine" \notin cfg.present THEN "KeyError"
    ELSE IF "affine" \in cfg.enabled THEN "Affine"
    ELSE "Rigid"

\* Registration.run, lines 58-66: config['methods'][m]['enabled'] is read
\* for syn, affine, rigid in that order until one is true; a method the
\* configuration does not list makes the read raise KeyError; "none" when
\* all three are listed and none is enabled.
SelectedMethod(cfg) ==
    IF "syn" \notin cfg.present THEN "KeyError"
    ELSE IF "syn" \in cfg.enabled THEN "SyN"
    ELSE IF "affine" \notin cfg.present THEN "KeyError"
    ELSE IF "affine" \in cfg.enabled THEN "Affine"
    ELSE IF "rigid" \notin cfg.present THEN "KeyError"
    ELSE IF "rigid" \in cfg.enabled THEN "Rigid"
    ELSE "none"

\* Linear interpolation for every field, the discrete ones included.
InterpolatorAlwaysLinear(field) == "linear"

\* The interpolator _transform_all_to_template passes for each field.
InterpolatorFor(field) ==
    IF field \in {"brain_mask", "segmentation_labels"}
    THEN "nearestNeighbor"
    ELSE "linear"

\* A propagation that leaves the CSF map behind.
PropagatedFieldsWithoutCsf ==
    <<"brain_mask", "segmentation_labels",
      "gm_probability", "wm_probability">>

\* The fields _transform_all_to_template visits, in its order.
PropagatedFields ==
    <<"brain_mask", "segmentation_labels",
      "csf_probability", "gm_probability", "wm_probability">>

\* Registration._transform_all_to_template.
RECURSIVE TransformAllToTemplate(_, _)
TransformAllToTemplate(r, fields) ==
    IF fields = <<>>
    THEN r
    ELSE LET f == Head(fields)
         IN  IF r.d.native[f] # None
             THEN LET o == TransformToTemplate(r.d, f, InterpolatorFor(f))
                  IN  TransformAllToTemplate(
                          Res(o.d, "", r.tw \cup o.tw, r.mu), Tail(fields))
             ELSE TransformAllToTemplate(r, Tail(fields))

\* A registration that stores the image and the forward transform only.
StoreRegistrationWithoutInverse(d, result) ==
    LET d1 == [d  EXCEPT !.template.image = result.warpedmovout]
        d2 == [d1 EXCEPT !.transforms.native_to_template =
                             result.fwdtransforms]
    IN  Res(d2, "", {TWrite(d, "image")}, {})

\* Registration.run lines 68-71: the three assignments, in source order.
StoreRegistration(d, result) ==
    LET d1 == [d  EXCEPT !.template.image = result.warpedmovout]
        d2 == [d1 EXCEPT !.transforms.native_to_template =
                             result.fwdtransforms]
        d3 == [d2 EXCEPT !.transforms.template_to_native =
                             result.invtransforms]
    IN  Res(d3, "", {TWrite(d, "image")}, {})

\* A loader that carries on without the image when its file is missing.
LoadResourceLenient(cached, exists) ==
    IF cached \/ ~exists
    THEN [raised |-> "", loaded |-> cached, read |-> FALSE]
    ELSE [raised |-> "", loaded |-> TRUE, read |-> TRUE]

\* A loader that reads the file on every call, cached or not.
LoadResourceAlways(cached, exists) ==
    IF ~exists
    THEN [raised |-> "FileNotFoundError", loaded |-> cached, read |-> FALSE]
    ELSE [raised |-> "", loaded |-> TRUE, read |-> TRUE]

\* Registration._load_template / ROIExtraction._load_atlas: nothing to do
\* when the instance already holds the image (cached); otherwise the file
\* must exist and is read.
LoadResource(cached, exists) ==
    IF cached
    THEN [raised |-> "", loaded |-> TRUE, read |-> FALSE]
    ELSE IF ~exists
         THEN [raised |-> "FileNotFoundError", loaded |-> FALSE,
               read |-> FALSE]
         ELSE [raised |-> "", loaded |-> TRUE, read |-> TRUE]

\* A registration instance that, once it has served a subject, keeps that
\* subject's result and does not call the engine again.
RegistrationRunKeepsResult(d, cfg, template, templateExists, engineFails, transformFails) ==
    LET ld     == LoadResource(template, templateExists)
        method == SelectedMethod(cfg)
        run ==
          IF ld.raised # "" THEN Res(d, ld.raised, {}, {})
          ELSE IF method = "KeyError" THEN Res(d, "KeyError", {}, {})
          ELSE IF method = "none" THEN Res(d, "ValueError", {}, {})
          ELSE IF template
               THEN Ran(Res([d EXCEPT !.processing_steps =
                                          Append(@, "registration")],
                            "", {}, {}), <<>>)
          ELSE IF engineFails
               THEN Ran(Res(d, "EngineError", {}, {}), <<method>>)
          ELSE LET result == AntsRegistration(ImageReadTemplate,
                                              d.native.image, method)
                   stored == StoreRegistration(d, result)
                   moved  == TransformAllToTemplate(stored,
                                                    PropagatedFields)
               IN  IF transformFails /\ moved.d # stored.d
                   THEN Ran(Res(stored.d, "EngineError", stored.tw, {}),
                            <<method>>)
                   ELSE Ran(Res([moved.d EXCEPT !.processing_steps =
                                               Append(@, "registration")],
                                "", moved.tw, moved.mu),
                            <<method>>)
    IN  Loads(run, ld.loaded, ld.read)

\* Registration.run on a stage instance whose self.template is loaded or
\* not (template): engineFails says that ants.registration raises,
\* transformFails that the first ants.apply_transforms call of
\* _transform_all_to_template raises, after lines 69-71 stored the image
\* and the transforms (a failure of a later call would leave the fields
\* before it propagated as well).
RegistrationRun(d, cfg, template, templateExists, engineFails, transformFails) ==
    LET ld     == LoadResource(template, templateExists)
        method == SelectedMethod(cfg)
        run ==
          IF ld.raised # "" THEN Res(d, ld.raised, {}, {})
          ELSE IF method = "KeyError" THEN Res(d, "KeyError", {}, {})
          ELSE IF method = "none" THEN Res(d, "ValueError", {}, {})
          ELSE IF engineFails
               THEN Ran(Res(d, "EngineError", {}, {}), <<method>>)
          ELSE LET result == AntsRegistration(ImageReadTemplate,
                                              d.native.image, method)
                   stored == StoreRegistration(d, result)
                   moved  == TransformAllToTemplate(stored,
                                                    PropagatedFields)
               IN  IF transformFails /\ moved.d # stored.d
                   THEN Ran(Res(stored.d, "EngineError", stored.tw, {}),
                            <<method>>)
                   ELSE Ran(Res([moved.d EXCEPT !.processing_steps =
                                               Append(@, "registration")],
                                "", moved.tw, moved.mu),
                            <<method>>)
    IN  Loads(run, ld.loaded, ld.read)

\* ------------------------------------------------------------------------
\* PET processing, ROI extraction, quality control
\* ------------------------------------------------------------------------

\* PETProcessor.run: its first statement reads data.pet["original"], and
\* ProcessingData defines no attribute pet.
PETProcessorRun(d) == Res(d, "AttributeError", {}, {})

\* ROIExtraction._extract_roi_features: the feature sets it emits.
RoiFeatureNames(d) ==
    (IF d.template.gm_probability # None THEN {"gm_features"} ELSE {})
    \cup
    (IF d.template.wm_probability # None THEN {"wm_features"} ELSE {})

\* np.unique(atlas_data) restricted to the values > 0: the distinct positive
\* labels in ascending order.
RoiLabels(atlas_data) ==
    LET pos == {atlas_data[k] : k \in 1..Len(atlas_data)} \ {0}
    IN  [i \in 1..Cardinality(pos) |->
            CHOOSE x \in pos : Cardinality({y \in pos : y < x}) = i - 1]

\* The sum of v[k] over k \in idx.
RECURSIVE SumOver(_, _)
SumOver(v, idx) ==
    IF idx = {} THEN 0
    ELSE LET k == CHOOSE k \in idx : TRUE
         IN  v[k] + SumOver(v, idx \ {k})

\* One cell of the feature array, as the fraction num/den: the mean of the
\* tissue values inside the ROI, or the ROI's voxel count; a statistic the
\* code does not know leaves the cell at 0.
StatValue(stat, tissue_data, atlas_data, roi_id) ==
    LET roi_mask == {k \in 1..Len(atlas_data) : atlas_data[k] = roi_id}
    IN  IF stat = "mean"
        THEN [num |-> SumOver(tissue_data, roi_mask),
              den |-> Cardinality(roi_mask)]
        ELSE IF stat = "volume"
        THEN [num |-> Cardinality(roi_mask), den |-> 1]
        ELSE [num |-> 0, den |-> 1]

\* A feature extraction that keeps the two-dimensional array in every case.
ExtractFeaturesForTissueNoFlatten(tissue_data, atlas_data, roi_labels, statistics) ==
    [shape  |-> <<Len(roi_labels), Len(statistics)>>,
     values |-> [i \in 1..Len(roi_labels) |->
                   [j \in 1..Len(statistics) |->
                       StatValue(statistics[j], tissue_data, atlas_data,
                                 roi_labels[i])]]]

\* ROIExtraction._extract_features_for_tissue: a num_rois x num_stats array,
\* flattened when there is one statistic.
ExtractFeaturesForTissue(tissue_data, atlas_data, roi_labels, statistics) ==
    LET num_rois  == Len(roi_labels)
        num_stats == Len(statistics)
        features  == [i \in 1..num_rois |->
                        [j \in 1..num_stats |->
                            StatValue(statistics[j], tissue_data, atlas_data,
                                      roi_labels[i])]]
    IN  IF num_stats = 1
        THEN [shape  |-> <<num_rois>>,
              values |-> [i \in 1..num_rois |-> features[i][1]]]
        ELSE [shape |-> <<num_rois, num_stats>>, values |-> features]

\* An ROI stage that skips silently when the container is not registered.
ROIExtractionRunSkipsUnregistered(d, atlas, atlasExists) ==
    IF ~has_segmentation(d) THEN Res(d, "ValueError", {}, {})
    ELSE IF ~has_registration(d) THEN Res(d, "", {}, {})
    ELSE IF ~(atlas \/ atlasExists) THEN Res(d, "FileNotFoundError", {}, {})
    ELSE Res([d EXCEPT !.template.roi_features =
                           [Val("template", "roi_features", "roi_extraction")
                               EXCEPT !.names = {"gm_features"}],
                       !.processing_steps = Append(@, "roi_extraction")],
             "", {TWrite(d, "roi_features")}, {})

\* ROIExtraction.run on a stage instance whose self.atlas is loaded or not
\* (atlas); the atlas is loaded after the two precondition checks.
ROIExtractionRun(d, atlas, atlasExists) ==
    IF ~has_segmentation(d) THEN Res(d, "ValueError", {}, {})
    ELSE IF ~has_registration(d) THEN Res(d, "ValueError", {}, {})
    ELSE LET ld == LoadResource(atlas, atlasExists)
             roi_features ==
                 [Val("template", "roi_features", "roi_extraction")
                     EXCEPT !.names = RoiFeatureNames(d)]
         IN  IF ld.raised # ""
             THEN Loads(Res(d, ld.raised, {}, {}), ld.loaded, ld.read)
             ELSE Loads(Res([d EXCEPT !.template.roi_features = roi_features,
                                      !.processing_steps =
                                          Append(@, "roi_extraction")],
                            "", {TWrite(d, "roi_features")}, {}),
                        ld.loaded, ld.read)

\* QualityControl._calculate_segmentation_quality: the volumes it reports.
VolumeKeys(d) ==
    LET space == IF has_registration(d) THEN d.template ELSE d.native
    IN  (IF space.gm_probability # None THEN {"gm_volume"} ELSE {})
        \cup
        (IF space.wm_probability # None THEN {"wm_volume"} ELSE {})

\* QualityControl._calculate_image_quality, lines 88-91: is the standard
\* deviation of image[mask == 0] positive.  An image that is the product
\* with this very mask is 0 wherever the mask is 0, so its background has
\* no spread; for any other image it depends on the voxels
\* (backgroundVaries).
NoisePositive(image, mask, backgroundVaries) ==
    IF image.by = "mul" /\ image.srcBy = mask.by
    THEN FALSE
    ELSE backgroundVaries

\* QualityControl._calculate_registration_quality, lines 107-116: the
\* reference template is read when the instance holds none and its path is
\* configured and readable (referenceLoadable); a failure is not an error.
LoadReference(cached, referenceLoadable) ==
    IF cached THEN [raised |-> "", loaded |-> TRUE, read |-> FALSE]
    ELSE IF referenceLoadable
         THEN [raised |-> "", loaded |-> TRUE, read |-> TRUE]
         ELSE [raised |-> "", loaded |-> FALSE, read |-> FALSE]

\* Metrics that have a configured minimum (snr_min, registration_mi_min).
ThresholdMetrics == {"snr", "registration_mi"}

\* A threshold check that rejects the subject when a metric is too low.
CheckThresholdsFatal(keys, thresholds, below) ==
    LET warnings == (keys \cap thresholds) \cap below
    IN  [warnings |-> warnings,
         raised |-> IF warnings # {} THEN "ValueError" ELSE ""]

\* QualityControl._check_thresholds: a warning for every computed metric
\* that has a configured minimum and lies below it; nothing is raised.
CheckThresholds(keys, thresholds, below) ==
    [warnings |-> (keys \cap thresholds) \cap below, raised |-> ""]

\* A quality control that updates the existing qc_metrics mapping in place
\* of binding a new one: keys of an earlier run stay.
QualityControlRunMerges(d, template, backgroundVaries, referenceLoadable, miFails, thresholds, below) ==
    LET ld == IF has_registration(d)
              THEN LoadReference(template, referenceLoadable)
              ELSE [raised |-> "", loaded |-> template, read |-> FALSE]
        image_quality ==
            IF d.native.original_image # None
               /\ d.native.brain_mask # None
               /\ NoisePositive(d.native.image, d.native.brain_mask,
                                backgroundVaries)
            THEN {"snr"} ELSE {}
        registration_quality ==
            IF has_registration(d) /\ ld.loaded /\ ~miFails
            THEN {"registration_mi"} ELSE {}
        segmentation_quality ==
            IF has_segmentation(d) THEN VolumeKeys(d) ELSE {}
        metrics ==
            [keys |-> d.qc_metrics.keys
                      \cup image_quality \cup registration_quality
                      \cup segmentation_quality
                      \cup {"processing_steps", "num_steps"},
             processing_steps |-> d.processing_steps,
             num_steps |-> Len(d.processing_steps)]
        checked == CheckThresholds(metrics.keys, thresholds, below)
    IN  Loads(Res([d EXCEPT !.qc_metrics = metrics,
                            !.processing_steps =
                                Append(@, "quality_control")],
                  checked.raised, {}, {}),
              ld.loaded, ld.read)

\* QualityControl.run on a stage instance whose self.template is loaded or
\* not (template): backgroundVaries as above, miFails says that the mutual
\* information call raises (caught at lines 119-128, the metric is then
\* left out), thresholds are the metrics with a configured minimum, below
\* those whose value lies under it.
QualityControlRun(d, template, backgroundVaries, referenceLoadable, miFails, thresholds, below) ==
    LET ld == IF has_registration(d)
              THEN LoadReference(template, referenceLoadable)
              ELSE [raised |-> "", loaded |-> template, read |-> FALSE]
        image_quality ==
            IF d.native.original_image # None
               /\ d.native.brain_mask # None
               /\ NoisePositive(d.native.image, d.native.brain_mask,
                                backgroundVaries)
            THEN {"snr"} ELSE {}
        registration_quality ==
            IF has_registration(d) /\ ld.loaded /\ ~miFails
            THEN {"registration_mi"} ELSE {}
        segmentation_quality ==
            IF has_segmentation(d) THEN VolumeKeys(d) ELSE {}
        metrics ==
            [keys |-> image_quality \cup registration_quality
                      \cup segmentation_quality
                      \cup {"processing_steps", "num_steps"},
             processing_steps |-> d.processing_steps,
             num_steps |-> Len(d.processing_steps)]
        checked == CheckThresholds(metrics.keys, thresholds, below)
    IN  Loads(Res([d EXCEPT !.qc_metrics = metrics,
                            !.processing_steps =
                                Append(@, "quality_control")],
                  checked.raised, {}, {}),
              ld.loaded, ld.read)

\* ------------------------------------------------------------------------
\* PreprocessingPipeline
\* ------------------------------------------------------------------------

\* PreprocessingPipeline.run up to its line 145: the MRI is read and the
\* container is built as ProcessingData(original_image, subject_id,
\* pet_image), three arguments for a constructor that takes two.
PipelineRunError(mriExists) ==
    IF ~mriExists THEN "FileNotFoundError" ELSE "TypeError"

\* ------------------------------------------------------------------------
\* Batch driver (scripts/batch_process.py)
\* ------------------------------------------------------------------------

\* A discovery that keeps the listed subjects that have no MRI file.
FindSubjectsKeepsMissing(use_list, listing, has_mri) == listing

\* find_subjects: with a subject list, the listed ids that have a matching
\* MRI file, in list order; without one, one subject per matching file.
FindSubjects(use_list, listing, has_mri) ==
    LET HasMri(subject_id) == subject_id \in has_mri
    IN  IF use_list THEN SelectSeq(listing, HasMri) ELSE listing

\* A loop body that gives up on the batch at the first failing subject.
ProcessSubjectStopsOnFailure(b) ==
    LET subject_id == b.subjects[b.i]
        error      == PipelineRunError(TRUE)
    IN  [b EXCEPT !.attempted = Append(@, subject_id),
                  !.failed = Append(@, <<subject_id, error>>),
                  !.i = Len(b.subjects) + 1]

\* main, lines 171-191: one iteration of the loop over the subjects.  The
\* MRI path comes from the directory listing, so pipeline.run gets past its
\* existence check.
ProcessSubject(b) ==
    LET subject_id == b.subjects[b.i]
        error      == PipelineRunError(TRUE)
    IN  IF error = ""
        THEN [b EXCEPT !.attempted = Append(@, subject_id),
                       !.results = Append(@, subject_id),
                       !.i = @ + 1]
        ELSE [b EXCEPT !.attempted = Append(@, subject_id),
                       !.failed = Append(@, <<subject_id, error>>),
                       !.i = @ + 1]

\* main, line 206.
ExitCode(failed) == IF Len(failed) = 0 THEN 0 ELSE 1

\* ------------------------------------------------------------------------
\* The state machine: a caller holding one container invokes operations
\* ------------------------------------------------------------------------

StageNames ==
    {"skull_stripping", "segmentation", "registration", "pet_processing",
     "roi_extraction", "quality_control"}

SubjectId == "sub01"

\* How many probability images the classifier may return (num_classes).
ProbabilityCounts == {2, 3, 4}

\* No configuration: for the operations that read none.
NoConfig == MethodsConfig({}, {})

\* The names among `flags` whose value is TRUE.
Flags(flags) == {n \in DOMAIN flags : flags[n]}

\* Nothing has been handed to / returned by the voxel-level fallback.
NoVoxels == [image |-> <<>>, mask |-> <<>>, has_mask |-> FALSE]

NoSegResult ==
    [raised |-> "none", segmentation |-> <<>>, csf |-> <<>>, gm |-> <<>>,
     wm |-> <<>>, p33 |-> 0, p66 |-> 0]

\* The stage instances that keep a file loaded between runs.
CachingStages == {"registration", "roi_extraction", "quality_control"}

\* No ROI extraction input / output.
NoRoiInput == [atlas |-> <<>>, tissue |-> <<>>, statistics |-> <<>>]

NoRoiOutput == [runs |-> 0, first |-> <<>>, second |-> <<>>]

\* The batch driver has not been started.
NoBatch ==
    [pc |-> "idle", use_list |-> FALSE, listing |-> <<>>, has_mri |-> {},
     input_exists |-> FALSE, config_exists |-> FALSE, init_ok |-> FALSE,
     subjects |-> <<>>, i |-> 0, attempted |-> <<>>, results |-> <<>>,
     failed |-> <<>>, code |-> -1]

\* A stage order with registration ahead of segmentation.
step_orderRegistrationFirst ==
    <<"skull_stripping", "registration", "segmentation", "pet_processing",
      "roi_extraction", "quality_control">>

\* PreprocessingPipeline.run, step_order: the order in which its loop runs
\* the enabled stages on a subject's container.
step_order ==
    <<"skull_stripping", "segmentation", "registration", "pet_processing",
      "roi_extraction", "quality_control">>

\* The position of a stage in step_order.
StepIndex(op) == CHOOSE i \in 1..Len(step_order) : step_order[i] = op

\* No stage has been run on the container.
LoopStart == [ok |-> TRUE, at |-> 0]

\* The loop of PreprocessingPipeline.run, lines 165-179: the calls made on a
\* container follow it as long as each is the run of a stage later in
\* step_order than the one before and returns; `at` is the position reached.
LoopFollowed(f, op, raised) ==
    IF f.ok /\ op \in StageNames /\ raised = "" /\ StepIndex(op) > f.at
    THEN [ok |-> TRUE, at |-> StepIndex(op)]
    ELSE [ok |-> FALSE, at |-> 0]

\* A container fresh from ProcessingData(image, subject_id) and stage
\* instances fresh from their constructors.
ContainerInit ==
    /\ data = ProcessingDataInit(ImageReadMRI, SubjectId)
    /\ last = [op |-> "init", arg |-> "", outcome |-> "returned",
               error |-> "", appended |-> 0, cfg |-> NoConfig,
               inputs |-> {}, ran |-> <<>>, before |-> {}]
    /\ nCalls = 0
    /\ invoked = {}
    /\ templateWrites = {}
    /\ maskings = {}
    /\ cache = [st \in CachingStages |-> FALSE]
    /\ reads = [st \in CachingStages |-> 0]
    /\ summary = NoSummary
    /\ followed = LoopStart

Init ==
    /\ ContainerInit
    /\ img_data = NoVoxels
    /\ seg_result = NoSegResult
    /\ roi_input = NoRoiInput
    /\ roi_output = NoRoiOutput
    /\ batch = NoBatch

\* The operation `op` (called with `arg`, configured by `cfg`, in an
\* environment where `inputs` hold) ran on the container with result r;
\* `before` keeps the metric names quality control found in qc_metrics.
Finish(op, arg, cfg, inputs, r) ==
    /\ nCalls < MaxCalls
    /\ data' = r.d
    /\ last' = [op |-> op,
                arg |-> arg,
                outcome |-> IF r.raised = "" THEN "returned" ELSE "raised",
                error |-> r.raised,
                appended |-> Len(r.d.processing_steps)
                             - Len(data.processing_steps),
                cfg |-> cfg,
                inputs |-> inputs,
                ran |-> IF "ran" \in DOMAIN r THEN r.ran ELSE <<>>,
                before |-> IF op = "quality_control"
                           THEN data.qc_metrics.keys ELSE {}]
    /\ nCalls' = nCalls + 1
    /\ invoked' = IF op \in StageNames THEN invoked \cup {op} ELSE invoked
    /\ templateWrites' = templateWrites \cup r.tw
    /\ maskings' = maskings \cup r.mu
    /\ cache' = IF "loaded" \in DOMAIN r
                THEN [cache EXCEPT ![op] = r.loaded] ELSE cache
    /\ reads' = IF "read" \in DOMAIN r /\ r.read
                THEN [reads EXCEPT ![op] = @ + 1] ELSE reads
    /\ summary' = IF op = "get_processing_summary"
                  THEN GetProcessingSummary(data) ELSE summary
    /\ followed' = LoopFollowed(followed, op, r.raised)
    /\ UNCHANGED <<img_data, seg_result, roi_input, roi_output, batch>>

\* The two skull-stripping methods may be listed in either order.
RunSkullStripping ==
    \E keys \in {<<>>, <<"antspynet">>, <<"ants">>, <<"antspynet", "ants">>,
                 <<"ants", "antspynet">>} :
      \E enabled \in SUBSET {keys[i] : i \in 1..Len(keys)} :
        \E failing \in SUBSET enabled :
          Finish("skull_stripping", "", OrderedConfig(keys, enabled),
                 failing,
                 SkullStrippingRun(data, OrderedConfig(keys, enabled),
                                   failing))

\* fewOutputs / manyOutputs: the classifier returned fewer / more than three
\* probability images.
RunSegmentation ==
    \E atroposEnabled \in BOOLEAN :
      \E primaryRaises \in BOOLEAN :
        \E nProb \in ProbabilityCounts :
          \E positiveVoxels \in BOOLEAN :
            Finish("segmentation", "",
                   MethodsConfig({"atropos"},
                                 IF atroposEnabled THEN {"atropos"} ELSE {}),
                   Flags([primaryRaises |-> primaryRaises,
                          positiveVoxels |-> positiveVoxels,
                          fewOutputs |-> /\ atroposEnabled
                                         /\ ~primaryRaises
                                         /\ nProb < 3,
                          manyOutputs |-> /\ atroposEnabled
                                          /\ ~primaryRaises
                                          /\ nProb > 3]),
                   SegmentationRun(data, atroposEnabled, primaryRaises,
                                   nProb, positiveVoxels))

\* The environments of a registration run: the template file exists or
\* not, the registration engine raises or not, and with the file in place
\* and the engine working the resampling may raise.
RegistrationInputs ==
    {{}, {"templateExists"}, {"engineFails"},
     {"templateExists", "engineFails"},
     {"templateExists", "transformFails"}}

RunRegistration ==
    \E present \in SUBSET {"syn", "affine", "rigid"} :
      \E enabled \in SUBSET present :
        \E inputs \in RegistrationInputs :
          Finish("registration", "", MethodsConfig(present, enabled),
                 inputs,
                 RegistrationRun(data, MethodsConfig(present, enabled),
                                 cache["registration"],
                                 "templateExists" \in inputs,
                                 "engineFails" \in inputs,
                                 "transformFails" \in inputs))

RunPETProcessing ==
    Finish("pet_processing", "", NoConfig, {}, PETProcessorRun(data))

RunROIExtraction ==
    \E atlasExists \in BOOLEAN :
      Finish("roi_extraction", "", NoConfig,
             Flags([atlasExists |-> atlasExists]),
             ROIExtractionRun(data, cache["roi_extraction"], atlasExists))

\* The thresholds are configured for both metrics or for none; the computed
\* metrics lie all below or all above them.
RunQualityControl ==
    \E backgroundVaries \in BOOLEAN :
      \E referenceLoadable \in BOOLEAN :
        \E miFails \in BOOLEAN :
          \E thresholdsConfigured \in BOOLEAN :
            \E belowThresholds \in BOOLEAN :
              Finish("quality_control", "", NoConfig,
                     Flags([backgroundVaries |-> backgroundVaries,
                            referenceLoadable |-> referenceLoadable,
                            miFails |-> miFails,
                            thresholdsConfigured |-> thresholdsConfigured,
                            belowThresholds |-> belowThresholds]),
                     QualityControlRun(
                       data, cache["quality_control"], backgroundVaries,
                       referenceLoadable, miFails,
                       IF thresholdsConfigured THEN ThresholdMetrics ELSE {},
                       IF belowThresholds THEN ThresholdMetrics ELSE {}))

CallTransformToTemplate ==
    \E field_name \in NativeKeys \cap TemplateKeys :
      \E interpolator \in Interpolators :
        Finish("transform_to_template", field_name, NoConfig, {},
               TransformToTemplate(data, field_name, interpolator))

CallGetProcessingSummary ==
    Finish("get_processing_summary", "", NoConfig, {}, Res(data, "", {}, {}))

\* PreprocessingPipeline.run(subject_id, mri_path, pet_path): the MRI file
\* exists or not, a PET path is given or not and its file exists or not.
PipelineRun ==
    \E mriExists \in BOOLEAN :
      \E petGiven \in BOOLEAN :
        \E petExists \in BOOLEAN :
          Finish("pipeline_run", "", NoConfig,
                 Flags([mriExists |-> mriExists, petGiven |-> petGiven,
                        petExists |-> petExists]),
                 Res(data, PipelineRunError(mriExists), {}, {}))

Next ==
    \/ RunSkullStripping
    \/ RunSegmentation
    \/ RunRegistration
    \/ RunPETProcessing
    \/ RunROIExtraction
    \/ RunQualityControl
    \/ CallTransformToTemplate
    \/ CallGetProcessingSummary
    \/ PipelineRun

Spec == Init /\ [][Next]_vars

\* ------------------------------------------------------------------------
\* The fallback segmentation as a function of the voxels
\* ------------------------------------------------------------------------

\* Largest number of voxels of an image.
MaxVoxels == 4

\* Largest voxel intensity; intensities start below zero.
MaxIntensity == 3

Intensities == -1..MaxIntensity

\* Values of a binary brain mask.
MaskValues == {0, 1}

InitVoxels ==
    /\ ContainerInit
    /\ seg_result = NoSegResult
    /\ roi_input = NoRoiInput
    /\ roi_output = NoRoiOutput
    /\ batch = NoBatch
    /\ \E n \in 1..MaxVoxels :
         \E image \in [1..n -> Intensities] :
           \/ img_data = [image |-> image, mask |-> <<>>, has_mask |-> FALSE]
           \/ \E mask \in [1..n -> MaskValues] :
                img_data = [image |-> image, mask |-> mask,
                            has_mask |-> TRUE]

\* _simple_segmentation is applied to the voxel arrays.
ApplySimpleSegmentation ==
    /\ seg_result = NoSegResult
    /\ seg_result' = SimpleSegmentationVoxels(img_data.image, img_data.mask,
                                              img_data.has_mask)
    /\ UNCHANGED <<containerVars, img_data, roi_input, roi_output, batch>>

NextVoxels == ApplySimpleSegmentation

SpecVoxels == InitVoxels /\ [][NextVoxels]_vars

\* ------------------------------------------------------------------------
\* ROI feature extraction as a function of the voxels
\* ------------------------------------------------------------------------

\* Largest number of voxels of an atlas.
MaxAtlasVoxels == 3

\* Largest atlas label; 0 is the background.
MaxLabel == 3

\* Largest number of configured statistics.
MaxStatistics == 2

\* Values of a (binary) tissue map.
TissueValues == {0, 1}

Statistics == {"mean", "volume"}

InitRoi ==
    /\ ContainerInit
    /\ img_data = NoVoxels
    /\ seg_result = NoSegResult
    /\ roi_output = NoRoiOutput
    /\ batch = NoBatch
    /\ \E n \in 1..MaxAtlasVoxels :
         \E atlas \in [1..n -> 0..MaxLabel] :
           \E tissue \in [1..n -> TissueValues] :
             \E m \in 0..MaxStatistics :
               \E statistics \in [1..m -> Statistics] :
                 roi_input = [atlas |-> atlas, tissue |-> tissue,
                              statistics |-> statistics]

\* _extract_roi_features for one tissue: labels from the atlas, then the
\* feature array.
ExtractRoiFeatures(in) ==
    ExtractFeaturesForTissue(in.tissue, in.atlas, RoiLabels(in.atlas),
                             in.statistics)

\* The features are extracted from the inputs.
ApplyExtractFeatures ==
    /\ roi_output.runs = 0
    /\ roi_output' = [runs |-> 1, first |-> ExtractRoiFeatures(roi_input),
                      second |-> <<>>]
    /\ UNCHANGED <<containerVars, img_data, seg_result, roi_input, batch>>

\* The extraction is run again on the same inputs.
RepeatExtractFeatures ==
    /\ roi_output.runs = 1
    /\ roi_output' = [roi_output EXCEPT
                         !.runs = 2,
                         !.second = ExtractRoiFeatures(roi_input)]
    /\ UNCHANGED <<containerVars, img_data, seg_result, roi_input, batch>>

NextRoi == ApplyExtractFeatures \/ RepeatExtractFeatures

SpecRoi == InitRoi /\ [][NextRoi]_vars

\* ------------------------------------------------------------------------
\* The batch driver as a process
\* ------------------------------------------------------------------------

\* Subjects a subject list or an input directory may name.
SubjectIds == {"s1", "s2", "s3"}

\* Sequences of distinct subject ids.
Listings ==
    {q \in UNION {[1..n -> SubjectIds] : n \in 0..Cardinality(SubjectIds)} :
        \A i, j \in 1..Len(q) : i # j => q[i] # q[j]}

\* main is entered: with a subject list any listed subject may lack an MRI
\* file; without one the listing is the set of matching files.
InitBatch ==
    /\ ContainerInit
    /\ img_data = NoVoxels
    /\ seg_result = NoSegResult
    /\ roi_input = NoRoiInput
    /\ roi_output = NoRoiOutput
    /\ \E use_list, input_exists, config_exists, init_ok \in BOOLEAN :
         \E listing \in Listings :
           \E has_mri \in SUBSET SubjectIds :
             /\ ~use_list => has_mri = {listing[i] : i \in 1..Len(listing)}
             /\ batch = [NoBatch EXCEPT
                            !.pc = "validate", !.use_list = use_list,
                            !.listing = listing, !.has_mri = has_mri,
                            !.input_exists = input_exists,
                            !.config_exists = config_exists,
                            !.init_ok = init_ok]

BatchStep(b) ==
    /\ batch' = b
    /\ UNCHANGED <<containerVars, img_data, seg_result, roi_input,
                   roi_output>>

\* main, lines 141-148.
BatchValidate ==
    /\ batch.pc = "validate"
    /\ BatchStep(IF batch.input_exists /\ batch.config_exists
                 THEN [batch EXCEPT !.pc = "find"]
                 ELSE [batch EXCEPT !.pc = "exit", !.code = 1])

\* main, lines 150-157.
BatchFindSubjects ==
    /\ batch.pc = "find"
    /\ LET subjects == FindSubjects(batch.use_list, batch.listing,
                                    batch.has_mri)
       IN  BatchStep(IF subjects = <<>>
                     THEN [batch EXCEPT !.pc = "exit", !.code = 1]
                     ELSE [batch EXCEPT !.pc = "init",
                                        !.subjects = subjects])

\* main, lines 160-165.
BatchInitPipeline ==
    /\ batch.pc = "init"
    /\ BatchStep(IF batch.init_ok
                 THEN [batch EXCEPT !.pc = "loop", !.i = 1]
                 ELSE [batch EXCEPT !.pc = "exit", !.code = 1])

\* main, lines 171-191.
BatchProcessSubject ==
    /\ batch.pc = "loop"
    /\ batch.i <= Len(batch.subjects)
    /\ BatchStep(ProcessSubject(batch))

\* main, lines 193-206.
BatchReturn ==
    /\ batch.pc = "loop"
    /\ batch.i > Len(batch.subjects)
    /\ BatchStep([batch EXCEPT !.pc = "exit",
                               !.code = ExitCode(batch.failed)])

NextBatch ==
    \/ BatchValidate
    \/ BatchFindSubjects
    \/ BatchInitPipeline
    \/ BatchProcessSubject
    \/ BatchReturn

SpecBatch == InitBatch /\ [][NextBatch]_vars

\* ------------------------------------------------------------------------
\* Several subjects served by the same stage instances
\* ------------------------------------------------------------------------

\* The identifier of a subject processed after the first.
OtherSubjectId == "sub02"

\* The caller builds the container of the next subject and goes on with the
\* stage instances it has.
NewSubject ==
    /\ nCalls < MaxCalls
    /\ data' = ProcessingDataInit(ImageReadMRI, OtherSubjectId)
    /\ last' = [op |-> "new_subject", arg |-> "", outcome |-> "returned",
                error |-> "", appended |-> 0, cfg |-> NoConfig,
                inputs |-> {}, ran |-> <<>>, before |-> {}]
    /\ nCalls' = nCalls + 1
    /\ invoked' = {}
    /\ followed' = LoopStart
    /\ UNCHANGED <<templateWrites, maskings, cache, reads, summary,
                   img_data, seg_result, roi_input, roi_output, batch>>

\* The runs of the stages whose instances hold a loaded file, of
\* segmentation (which ROI extraction requires) and of the PET stage, on the
\* containers of successive subjects.
NextSubjects ==
    \/ RunSegmentation
    \/ RunRegistration
    \/ RunPETProcessing
    \/ RunROIExtraction
    \/ RunQualityControl
    \/ NewSubject

SpecSubjects == Init /\ [][NextSubjects]_vars

\* ------------------------------------------------------------------------
\* Claims
\* ------------------------------------------------------------------------

steps == data.processing_steps

IsPrefix(s, t) == Len(s) <= Len(t) /\ SubSeq(t, 1, Len(s)) = s

\* template[*] fields that have a same-named native field holding a volume.
SharedFields ==
    {"brain_mask", "segmentation_labels",
     "csf_probability", "gm_probability", "wm_probability"}

\* C2: processing_steps only grows, and no run of a stage adds more than
\* one entry to it (one entry per stage, not one per sub-method).
C2_LogGrowsOneEntryPerStage ==
    [][/\ IsPrefix(steps, steps')
       /\ last'.op \in StageNames => Len(steps') <= Len(steps) + 1]_vars

\* C3: a stage run that returns normally has appended the stage's name to
\* processing_steps (the PET pass-through excepted).
C3_StageAppendsOrRaises ==
    (last.op \in StageNames \ {"pet_processing"} /\ last.outcome = "returned")
    => /\ last.appended >= 1
       /\ steps[Len(steps)] = last.op

\* C4: no assignment to a template[*] field happened while
\* transforms.native_to_template was unset.
C4_NoTemplateWriteBeforeTransform ==
    \A w \in templateWrites : w.n2tSet

\* C5: until the registration stage executes, every template.* field and
\* both transforms are absent, whatever other stages have run.
C5_TemplateAbsentBeforeRegistration ==
    "registration" \notin invoked
    => /\ \A f \in TemplateKeys : data.template[f] = None
       /\ data.transforms.native_to_template = None
       /\ data.transforms.template_to_native = None

\* C5 witness: skull stripping and segmentation have populated the native
\* space and registration has not been entered.
C5_Witness ==
    /\ "registration" \notin invoked
    /\ data.native.brain_mask # None
    /\ data.native.gm_probability # None

\* C6: a transform_to_template call made while native_to_template or
\* template.image is absent returns normally and leaves the container
\* unchanged; the container changes only when both are present.
C6_TransformToTemplateFrame ==
    [][(last'.op = "transform_to_template" /\ nCalls' # nCalls)
       => /\ last'.outcome = "returned"
          /\ (data.transforms.native_to_template = None
              \/ data.template.image = None) => data' = data
          /\ data'.native = data.native
          /\ data'.transforms = data.transforms
          /\ data'.processing_steps = data.processing_steps
          /\ data'.qc_metrics = data.qc_metrics]_vars

\* C6 witness: transform_to_template("brain_mask") was called on a container
\* with a brain mask and no forward transform.
C6_Witness ==
    /\ last.op = "transform_to_template"
    /\ last.arg = "brain_mask"
    /\ data.native.brain_mask # None
    /\ data.transforms.native_to_template = None

\* C7: native.original_image always is the image the container was built
\* with.
C7_OriginalImageWriteOnce ==
    data.native.original_image = ImageReadMRI

\* C7 witness: skull stripping has replaced native.image by the masked image.
C7_Witness ==
    /\ data.native.brain_mask # None
    /\ data.native.image # data.native.original_image
    /\ "skull_stripping" \in invoked

\* C8: whenever a shared template field changes, its new value is the
\* forward transform applied to the same-named native field, and native
\* fields only ever hold native-space volumes.
C8_FieldToSpaceBinding ==
    [][\A f \in SharedFields :
         /\ data'.template[f] # data.template[f]
            => \E i \in Interpolators :
                 data'.template[f] =
                     ApplyTransforms(data'.template.image, data'.native[f],
                                     data'.transforms.native_to_template, i)
         /\ data'.template[f] # None => data'.template[f].space = "template"
         /\ data'.native[f] # None => data'.native[f].space = "native"]_vars

\* C8 witness: registration has propagated a mask and a probability map.
C8_Witness ==
    /\ data.template.brain_mask # None
    /\ data.template.gm_probability # None

\* C9: both operands of every multiplicative masking are in the same space.
C9_MaskingSameSpace ==
    \A m \in maskings : m.left = m.right

\* C9 witness: skull stripping and the fallback segmentation have both
\* multiplied an image by a mask.
C9_Witness ==
    /\ \E m \in maskings : m.stage = "skull_stripping"
    /\ \E m \in maskings : m.stage = "segmentation"

\* C10: after a successful registration template.image and both transforms
\* are set, every populated native field is in the same-named template field
\* (nearest neighbour for brain_mask and segmentation_labels, linear for the
\* probability maps), and absent native fields leave the template field
\* absent.
C10_RegistrationPropagates ==
    (last.op = "registration" /\ last.outcome = "returned")
    => /\ data.template.image # None
       /\ data.transforms.native_to_template # None
       /\ data.transforms.template_to_native # None
       /\ \A f \in SharedFields :
            IF data.native[f] # None
            THEN data.template[f] =
                   ApplyTransforms(
                       data.template.image, data.native[f],
                       data.transforms.native_to_template,
                       IF f \in {"brain_mask", "segmentation_labels"}
                       THEN "nearestNeighbor" ELSE "linear")
            ELSE data.template[f] = None

\* C10 witness: a registration returned on a container holding a brain mask
\* and tissue maps.
C10_Witness ==
    /\ last.op = "registration"
    /\ last.outcome = "returned"
    /\ data.native.brain_mask # None
    /\ data.native.csf_probability # None

Range(q) == {q[i] : i \in 1..Len(q)}

RegistrationMethods == {"syn", "affine", "rigid"}

\* C11: with all three enabled flags configured and at least one of them
\* true, registration calls exactly one engine method, the first enabled one
\* in the order SyN, affine, rigid, and the selection raises no error; the
\* stored template image is the output of that method.
C11_RegistrationMethodSelection ==
    (/\ last.op = "registration"
     /\ last.cfg.present = RegistrationMethods
     /\ last.cfg.enabled # {}
     /\ "templateExists" \in last.inputs)
    => LET preferred ==
               IF "syn" \in last.cfg.enabled THEN "SyN"
               ELSE IF "affine" \in last.cfg.enabled THEN "Affine"
               ELSE "Rigid"
       IN  /\ last.ran = <<preferred>>
           /\ last.error \notin {"ValueError", "KeyError"}
           /\ "engineFails" \notin last.inputs
              => /\ data.template.image.by = preferred
                 /\ "transformFails" \notin last.inputs
                    => last.outcome = "returned"

\* C11 witness: a registration returned with affine and rigid both enabled
\* and SyN disabled.
C11_Witness ==
    /\ last.op = "registration"
    /\ last.cfg.present = RegistrationMethods
    /\ last.cfg.enabled = {"affine", "rigid"}
    /\ last.outcome = "returned"

\* C12: a registration run with no method enabled raises, calls no engine
\* method and leaves the container as it was (nothing written to template.*
\* or transforms, no 'registration' entry).
C12_NoMethodEnabledRaises ==
    [][(/\ last'.op = "registration"
        /\ nCalls' # nCalls
        /\ last'.cfg.enabled = {})
       => /\ last'.outcome = "raised"
          /\ last'.ran = <<>>
          /\ data' = data]_vars

\* C12 witness: the template loaded, all three flags are configured false
\* and the run raised the configuration error.
C12_Witness ==
    /\ last.op = "registration"
    /\ last.cfg.present = RegistrationMethods
    /\ last.cfg.enabled = {}
    /\ "templateExists" \in last.inputs
    /\ last.error = "ValueError"
    /\ data.template.image = None

C14_FallbackIffPrimaryRaises ==
    (last.op = "segmentation" /\ "atropos" \in last.cfg.enabled)
    => /\ "atropos" \in Range(last.ran)
       /\ "_simple_segmentation" \in Range(last.ran)
          <=> "primaryRaises" \in last.inputs
       /\ {"primaryRaises", "positiveVoxels"} \subseteq last.inputs
          => /\ last.outcome = "returned"
             /\ last.appended = 1
             /\ steps[Len(steps)] = "segmentation"
             /\ data.native.segmentation_labels.by = "fallback"
             /\ data.native.csf_probability.by = "fallback"
             /\ data.native.gm_probability.by = "fallback"
             /\ data.native.wm_probability.by = "fallback"

\* C14 witness: the classifier raised and the stage returned.
C14_Witness ==
    /\ last.op = "segmentation"
    /\ "primaryRaises" \in last.inputs
    /\ last.outcome = "returned"

\* C15: the fallback raises exactly when no masked voxel is positive;
\* otherwise, with p33 and p66 the percentiles of the positive masked
\* voxels, a voxel v gets label 0 if v <= 0, 1 if 0 < v <= p33, 2 if
\* p33 < v <= p66 and 3 if v > p66, the three probability volumes are 0/1,
\* and exactly one of them is 1 where the label is positive, none where it
\* is 0.
C15_FallbackLabels ==
    seg_result # NoSegResult
    => LET v   == MaskedVoxels(img_data.image, img_data.mask,
                               img_data.has_mask)
           pos == {i \in 1..Len(v) : v[i] > 0}
           p33 == Percentile100(v, pos, 33)
           p66 == Percentile100(v, pos, 66)
           r   == seg_result
       IN  IF pos = {}
           THEN r.raised = "ValueError"
           ELSE /\ r.raised = ""
                /\ \A i \in 1..Len(v) :
                     /\ v[i] <= 0 => r.segmentation[i] = 0
                     /\ (v[i] > 0 /\ 100 * v[i] <= p33)
                        => r.segmentation[i] = 1
                     /\ (100 * v[i] > p33 /\ 100 * v[i] <= p66)
                        => r.segmentation[i] = 2
                     /\ 100 * v[i] > p66 => r.segmentation[i] = 3
                     /\ {r.csf[i], r.gm[i], r.wm[i]} \subseteq {0, 1}
                     /\ r.csf[i] + r.gm[i] + r.wm[i] =
                            IF r.segmentation[i] > 0 THEN 1 ELSE 0
                     /\ r.csf[i] = 1 <=> r.segmentation[i] = 1
                     /\ r.gm[i] = 1 <=> r.segmentation[i] = 2
                     /\ r.wm[i] = 1 <=> r.segmentation[i] = 3

\* C15 witness: a masked image whose voxels received all four labels.
C15_Witness ==
    /\ seg_result.raised = ""
    /\ img_data.has_mask
    /\ Range(seg_result.segmentation) = {0, 1, 2, 3}

\* C16: when the classifier raised, the stage raises exactly when the
\* fallback found no positive voxel; the error then leaves the stage as the
\* fallback's ValueError and the container is as it was (segmentation
\* fields not assigned, no 'segmentation' entry).
C16_FallbackFailsOnlyWithoutVoxels ==
    [][(/\ last'.op = "segmentation"
        /\ nCalls' # nCalls
        /\ "atropos" \in last'.cfg.enabled
        /\ "primaryRaises" \in last'.inputs)
       => /\ last'.outcome = "raised" <=> "positiveVoxels" \notin last'.inputs
          /\ last'.outcome = "raised"
             => /\ last'.error = "ValueError"
                /\ data' = data
                /\ last'.appended = 0]_vars

\* C16 witness: classifier and fallback both failed on a container that
\* holds no segmentation.
C16_Witness ==
    /\ last.op = "segmentation"
    /\ "atropos" \in last.cfg.enabled
    /\ "primaryRaises" \in last.inputs
    /\ last.error = "ValueError"
    /\ data.native.segmentation_labels = None
    /\ data.native.gm_probability = None

\* C17: a PET stage run on a container without PET data returns without
\* raising and appends nothing.
C17_PetPassThrough ==
    last.op = "pet_processing"
    => /\ last.outcome = "returned"
       /\ last.appended = 0

\* C18: a pipeline run given an existing MRI and an existing PET image
\* completes, with 'pet_processing' logged.
C18_PetRunCompletes ==
    (/\ last.op = "pipeline_run"
     /\ {"mriExists", "petGiven", "petExists"} \subseteq last.inputs)
    => /\ last.outcome = "returned"
       /\ "pet_processing" \in Range(steps)

\* C19: a pipeline run given an existing MRI and no PET path completes with
\* the template-space image, mask, tissue maps and labels populated.
C19_MriOnlyRunCompletes ==
    (/\ last.op = "pipeline_run"
     /\ "mriExists" \in last.inputs
     /\ "petGiven" \notin last.inputs)
    => /\ last.outcome = "returned"
       /\ \A f \in SharedFields \cup {"image"} : data.template[f] # None

\* C20: quality control run after skull stripping and registration, with a
\* loadable reference template, reports both 'snr' and 'registration_mi'.
C20_QcReportsSnrAndMi ==
    (/\ last.op = "quality_control"
     /\ "skull_stripping" \in Range(steps)
     /\ "registration" \in Range(steps)
     /\ {"backgroundVaries", "referenceLoadable"} \subseteq last.inputs)
    => {"snr", "registration_mi"} \subseteq data.qc_metrics.keys

\* C21: quality control always returns normally with one 'quality_control'
\* entry appended, whatever the container holds and whatever the thresholds
\* say, and a metric is in qc_metrics only if the data it is computed from
\* is present.
C21_QualityControlNeverFatal ==
    last.op = "quality_control"
    => /\ last.outcome = "returned"
       /\ last.appended = 1
       /\ steps[Len(steps)] = "quality_control"
       /\ "snr" \in data.qc_metrics.keys => data.native.brain_mask # None
       /\ "registration_mi" \in data.qc_metrics.keys
          => /\ data.template.image # None
             /\ cache["quality_control"]
       /\ "gm_volume" \in data.qc_metrics.keys
          => \/ data.native.gm_probability # None
             \/ data.template.gm_probability # None
       /\ "wm_volume" \in data.qc_metrics.keys
          => \/ data.native.wm_probability # None
             \/ data.template.wm_probability # None

\* C21 witness: quality control ran on a registered container without brain
\* mask and without segmentation, with the computed metric below its
\* configured minimum.
C21_Witness ==
    /\ last.op = "quality_control"
    /\ {"thresholdsConfigured", "belowThresholds"} \subseteq last.inputs
    /\ "registration_mi" \in data.qc_metrics.keys
    /\ data.native.brain_mask = None
    /\ data.native.gm_probability = None

\* C22: the feature array of a tissue has shape [R, S] for R distinct
\* positive atlas labels and S statistics, and shape [R] when S = 1; row i
\* holds the statistics of the i-th smallest positive label; a second run on
\* the same inputs gives the same array.
C22_RoiFeatureArrays ==
    roi_output.runs >= 1
    => LET atlas  == roi_input.atlas
           tissue == roi_input.tissue
           stats  == roi_input.statistics
           pos    == {atlas[k] : k \in 1..Len(atlas)} \ {0}
           R      == Cardinality(pos)
           S      == Len(stats)
           out    == roi_output.first
           Ith(i) == CHOOSE x \in pos :
                         Cardinality({y \in pos : y < x}) = i - 1
           Vox(i) == {k \in 1..Len(atlas) : atlas[k] = Ith(i)}
           Cell(i, j) == IF S = 1 THEN out.values[i] ELSE out.values[i][j]
       IN  /\ out.shape = IF S = 1 THEN <<R>> ELSE <<R, S>>
           /\ Len(out.values) = R
           /\ \A i \in 1..R :
                /\ S # 1 => Len(out.values[i]) = S
                /\ \A j \in 1..S :
                     /\ stats[j] = "volume"
                        => Cell(i, j) = [num |-> Cardinality(Vox(i)),
                                         den |-> 1]
                     /\ stats[j] = "mean"
                        => /\ Cell(i, j).den = Cardinality(Vox(i))
                           /\ Cell(i, j).num =
                                Cardinality({k \in Vox(i) : tissue[k] = 1})
           /\ roi_output.runs = 2 => roi_output.second = roi_output.first

\* C22 witness: two runs on an atlas with two labels, listed in descending
\* order, and a single statistic.
C22_Witness ==
    /\ roi_output.runs = 2
    /\ Len(roi_input.statistics) = 1
    /\ Len(roi_input.atlas) = 3
    /\ roi_input.atlas[1] > roi_input.atlas[2]
    /\ roi_input.atlas[2] > 0

\* C23: after an ROI extraction, template.roi_features holds the feature set
\* of a tissue exactly when that tissue's template-space probability map is
\* present, for CSF, GM and WM.
C23_FeaturesForEveryTissue ==
    (last.op = "roi_extraction" /\ last.outcome = "returned")
    => \A t \in {<<"csf_features", "csf_probability">>,
                 <<"gm_features", "gm_probability">>,
                 <<"wm_features", "wm_probability">>} :
         t[1] \in data.template.roi_features.names
         <=> data.template[t[2]] # None

\* C24: skull stripping calls its enabled methods in the order antspynet,
\* ants, whatever the order of the configuration's keys, and calls no method
\* that is not enabled; when both ran, the image and the mask in the
\* container are the ones of ants, the second.
C24_DispatchOrder ==
    last.op = "skull_stripping"
    => LET IsEnabled(m) == m \in last.cfg.enabled
           expected == SelectSeq(<<"antspynet", "ants">>, IsEnabled)
       IN  /\ Range(last.ran) \subseteq last.cfg.enabled
           /\ IsPrefix(last.ran, expected)
           /\ last.inputs = {}
              => /\ last.ran = expected
                 /\ last.outcome = "returned"
                 /\ last.cfg.enabled = {"antspynet", "ants"}
                    => /\ data.native.brain_mask.by = "ants"
                       /\ data.native.image.by = "mul"
                       /\ data.native.image.srcBy = "ants"

\* C24 witness: both methods enabled, ants listed first in the
\* configuration, and both ran.
C24_Witness ==
    /\ last.op = "skull_stripping"
    /\ last.cfg.keys = <<"ants", "antspynet">>
    /\ last.cfg.enabled = {"antspynet", "ants"}
    /\ last.outcome = "returned"
    /\ Len(last.ran) = 2

\* The ids recorded in the batch driver's failed list.
FailedIds == [k \in 1..Len(batch.failed) |-> batch.failed[k][1]]

\* C26 as stated: whenever the batch driver got a list of subjects and a
\* pipeline, every subject is attempted once in order and the exit code is
\* 1 exactly when a subject failed, 0 otherwise.
C26_ExitCodeIffFailure ==
    (/\ batch.pc = "exit"
     /\ batch.input_exists /\ batch.config_exists /\ batch.init_ok)
    => /\ batch.attempted = batch.subjects
       /\ batch.code = 1 <=> Len(batch.failed) > 0
       /\ batch.code = 0 <=> Len(batch.failed) = 0

\* C26: for a non-empty list of found subjects, the batch driver attempts
\* every subject once in list order, records (subject_id, message) for each
\* subject whose run raised and goes on with the next one, and returns 1
\* exactly when a subject failed, 0 otherwise.
C26_BatchIsolation ==
    (/\ batch.pc = "exit"
     /\ batch.subjects # <<>>
     /\ batch.init_ok)
    => LET Succeeded(id) == id \in Range(batch.results)
           Failed(id) == id \notin Range(batch.results)
       IN  /\ batch.attempted = batch.subjects
           /\ batch.results = SelectSeq(batch.subjects, Succeeded)
           /\ FailedIds = SelectSeq(batch.subjects, Failed)
           /\ \A k \in 1..Len(batch.failed) : batch.failed[k][2] # ""
           /\ batch.code = 1 <=> Len(batch.failed) > 0
           /\ batch.code = 0 <=> Len(batch.failed) = 0

\* C26 witness: the driver returned after three subjects, having gone on
\* after the first and the second failure.
C26_Witness ==
    /\ batch.pc = "exit"
    /\ Len(batch.subjects) = 3
    /\ Len(batch.failed) = 3
    /\ batch.code = 1

\* C27: with a subject list, the subjects found are the listed ones that
\* have an MRI file, in list order; only those are attempted or counted as
\* failed, and the exit code after the loop is decided by them alone.
C27_BatchDiscovery ==
    (/\ batch.use_list
     /\ batch.pc \in {"init", "loop", "exit"}
     /\ batch.input_exists /\ batch.config_exists)
    => LET listed == Range(batch.listing)
           Found(id) == id \in batch.has_mri
       IN  /\ batch.subjects = SelectSeq(batch.listing, Found)
           /\ Len(batch.subjects) = Cardinality(listed \cap batch.has_mri)
           /\ Range(batch.attempted) \subseteq batch.has_mri
           /\ Range(FailedIds) \subseteq Range(batch.attempted)
           /\ (batch.pc = "exit" /\ batch.init_ok /\ batch.subjects # <<>>)
              => /\ batch.attempted = batch.subjects
                 /\ batch.code = IF Len(batch.failed) = 0 THEN 0 ELSE 1

\* C27 witness: three listed subjects, one of them without MRI file; two
\* were found and attempted.
C27_Witness ==
    /\ batch.pc = "exit"
    /\ batch.use_list
    /\ Len(batch.listing) = 3
    /\ Len(batch.subjects) = 2
    /\ Len(batch.attempted) = 2
    /\ \E id \in Range(batch.listing) :
         id \notin batch.has_mri /\ id \notin Range(FailedIds)

\* C28: has_brain_extraction is true exactly when native.brain_mask is
\* present, has_registration exactly when template.image is present,
\* has_segmentation exactly when a tissue probability map is present in
\* native or template space; on a fresh container all three are false and
\* processing_steps is empty.
C28_PresenceProbes ==
    /\ has_brain_extraction(data) <=> data.native.brain_mask # None
    /\ has_registration(data) <=> data.template.image # None
    /\ has_segmentation(data)
       <=> \E f \in {"csf_probability", "gm_probability", "wm_probability"} :
             data.native[f] # None \/ data.template[f] # None
    /\ nCalls = 0
       => /\ ~has_brain_extraction(data)
          /\ ~has_registration(data)
          /\ ~has_segmentation(data)
          /\ steps = <<>>

\* C28 witness: a skull-stripped, registered container whose segmentation
\* produced labels and no probability maps.
C28_Witness ==
    /\ data.native.brain_mask # None
    /\ data.template.image # None
    /\ data.native.segmentation_labels # None
    /\ data.native.gm_probability = None

\* C29: get_processing_summary returns the subject id, the steps, the three
\* probes and the metrics of that moment and leaves the container as it is;
\* what a summary shows does not change when later operations append steps
\* or replace qc_metrics.
C29_SummaryIsSnapshot ==
    [][/\ (last'.op = "get_processing_summary" /\ nCalls' # nCalls)
          => /\ data' = data
             /\ last'.outcome = "returned"
             /\ summary'.taken
             /\ SummaryView(summary', data').subject_id = data.subject_id
             /\ SummaryView(summary', data').processing_steps = steps
             /\ summary'.has_brain_mask = (data.native.brain_mask # None)
             /\ summary'.has_registration = (data.template.image # None)
             /\ summary'.has_segmentation =
                    (\/ data.native.gm_probability # None
                     \/ data.template.gm_probability # None)
             /\ summary'.qc_metrics = data.qc_metrics
       /\ (summary.taken /\ last'.op # "get_processing_summary")
          => SummaryView(summary', data') = SummaryView(summary, data)]_vars

\* C29 witness: after the summary was taken, quality control appended a step
\* and replaced qc_metrics.
C29_Witness ==
    /\ summary.taken
    /\ last.op = "quality_control"
    /\ Len(steps) > Len(summary.processing_steps)
    /\ data.qc_metrics # summary.qc_metrics

\* C30: each stage instance reads its template / atlas file at most once,
\* and holds the loaded image from then on.
C30_ResourcesLoadedOnce ==
    \A st \in CachingStages :
        /\ reads[st] <= 1
        /\ cache[st] <=> reads[st] = 1

\* C30 witness: the registration instance ran to completion twice and read
\* its template once.
C30_Witness ==
    /\ Cardinality({i \in 1..Len(steps) : steps[i] = "registration"}) >= 2
    /\ reads["registration"] = 1

\* C31: a registration run whose instance holds no template and whose
\* template file is missing raises FileNotFoundError and leaves the
\* container as it was (no template field, no transform, no log entry); an
\* ROI extraction run whose instance holds no atlas and whose atlas file is
\* missing raises and leaves the container as it was, with FileNotFoundError
\* when its two preconditions hold; a quality control run whose reference
\* template cannot be loaded returns, appends its entry and writes
\* qc_metrics without 'registration_mi'.
C31_MissingReferenceFile ==
    [][nCalls' # nCalls
       => /\ (/\ last'.op = "registration"
              /\ ~cache["registration"]
              /\ "templateExists" \notin last'.inputs)
             => /\ last'.error = "FileNotFoundError"
                /\ data' = data
          /\ (/\ last'.op = "roi_extraction"
              /\ ~cache["roi_extraction"]
              /\ "atlasExists" \notin last'.inputs)
             => /\ last'.outcome = "raised"
                /\ data' = data
                /\ (data.template.image # None
                    /\ (\/ data.native.gm_probability # None
                        \/ data.template.gm_probability # None))
                   => last'.error = "FileNotFoundError"
          /\ (/\ last'.op = "quality_control"
              /\ ~cache["quality_control"]
              /\ "referenceLoadable" \notin last'.inputs)
             => /\ last'.outcome = "returned"
                /\ "registration_mi" \notin data'.qc_metrics.keys
                /\ {"processing_steps", "num_steps"}
                       \subseteq data'.qc_metrics.keys
                /\ data' = [data EXCEPT
                              !.qc_metrics = data'.qc_metrics,
                              !.processing_steps =
                                  Append(@, "quality_control")]]_vars

\* C31 witness: on a skull-stripped, segmented container the registration
\* stage raised for its missing template, with a method enabled and the
\* engine in working order.
C31_Witness ==
    /\ last.op = "registration"
    /\ last.error = "FileNotFoundError"
    /\ last.cfg.enabled # {}
    /\ "engineFails" \notin last.inputs
    /\ data.native.brain_mask # None
    /\ data.native.gm_probability # None
    /\ data.template.image = None
    /\ data.transforms.native_to_template = None

\* The three native tissue probability fields.
TissueFields == {"csf_probability", "gm_probability", "wm_probability"}

\* C32: a segmentation run whose classifier returned exactly three
\* probability images stores them in native.csf/gm/wm_probability; with any
\* other number of outputs the three fields are left as they were; in both
\* cases the run returns normally.
C32_ProbabilitiesOnlyForThreeOutputs ==
    [][(/\ last'.op = "segmentation"
        /\ nCalls' # nCalls
        /\ last'.cfg.enabled = {"atropos"}
        /\ "primaryRaises" \notin last'.inputs)
       => /\ last'.outcome = "returned"
          /\ IF {"fewOutputs", "manyOutputs"} \cap last'.inputs = {}
             THEN \A f \in TissueFields : data'.native[f].by = "atropos"
             ELSE \A f \in TissueFields :
                      data'.native[f] = data.native[f]]_vars

\* C33: a PET stage run on a container without native brain mask, or
\* without forward transform or template image, returns normally and
\* appends 'pet_processing'.
C33_PetDegradesWithoutFailing ==
    (/\ last.op = "pet_processing"
     /\ \/ data.native.brain_mask = None
        \/ data.transforms.native_to_template = None
        \/ data.template.image = None)
    => /\ last.outcome = "returned"
       /\ last.appended = 1
       /\ steps[Len(steps)] = "pet_processing"

\* C34: after a quality control run qc_metrics holds exactly what this run
\* computed: the log as it was at entry and its length, 'registration_mi'
\* exactly when this run computed it, a volume exactly when its probability
\* map is present, 'snr' only with a brain mask and a varying background;
\* a metric of an earlier run that this run did not compute is gone.
C34_MetricsReplaced ==
    last.op = "quality_control"
    => LET keys  == data.qc_metrics.keys
           space == IF data.template.image # None
                    THEN data.template ELSE data.native
       IN  /\ {"processing_steps", "num_steps"} \subseteq keys
           /\ keys \subseteq {"processing_steps", "num_steps", "snr",
                              "registration_mi", "gm_volume", "wm_volume"}
           /\ data.qc_metrics.processing_steps
                  = SubSeq(steps, 1, Len(steps) - 1)
           /\ data.qc_metrics.num_steps = Len(steps) - 1
           /\ "registration_mi" \in keys
              <=> /\ data.template.image # None
                  /\ cache["quality_control"]
                  /\ "miFails" \notin last.inputs
           /\ "gm_volume" \in keys <=> space.gm_probability # None
           /\ "wm_volume" \in keys <=> space.wm_probability # None
           /\ "snr" \in keys
              => /\ data.native.brain_mask # None
                 /\ "backgroundVaries" \in last.inputs

\* C34 witness: qc_metrics held 'registration_mi' when quality control was
\* entered, this run could not compute it, and it is gone.
C34_Witness ==
    /\ last.op = "quality_control"
    /\ "registration_mi" \in last.before
    /\ "miFails" \in last.inputs
    /\ "registration_mi" \notin data.qc_metrics.keys

\* C35: what a stage run does to a subject's container, and whether it
\* raises, is what a stage instance fresh from its constructor would do,
\* given that the template / atlas the used instance holds is at hand;
\* between runs a stage instance changes in nothing but its template or
\* atlas going from not loaded to loaded.
C35_SubjectIndependence ==
    [][nCalls' # nCalls
       => /\ \A st \in CachingStages :
                /\ cache[st] => cache'[st]
                /\ cache'[st] # cache[st] => last'.op = st
          /\ last'.op = "registration"
             => LET fresh == RegistrationRun(
                                 data, last'.cfg, FALSE,
                                 cache["registration"]
                                     \/ "templateExists" \in last'.inputs,
                                 "engineFails" \in last'.inputs,
                                 "transformFails" \in last'.inputs)
                IN  /\ data' = fresh.d
                    /\ last'.error = fresh.raised
          /\ last'.op = "roi_extraction"
             => LET fresh == ROIExtractionRun(
                                 data, FALSE,
                                 cache["roi_extraction"]
                                     \/ "atlasExists" \in last'.inputs)
                IN  /\ data' = fresh.d
                    /\ last'.error = fresh.raised
          /\ last'.op = "quality_control"
             => LET fresh == QualityControlRun(
                                 data, FALSE,
                                 "backgroundVaries" \in last'.inputs,
                                 cache["quality_control"]
                                     \/ "referenceLoadable" \in last'.inputs,
                                 "miFails" \in last'.inputs, {}, {})
                IN  /\ data' = fresh.d
                    /\ last'.error = fresh.raised]_vars

\* C35 witness: the registration instance that loaded its template for an
\* earlier subject registered the fresh container of the next subject.
C35_Witness ==
    /\ data.subject_id = OtherSubjectId
    /\ steps = <<"registration">>
    /\ reads["registration"] = 1
    /\ "templateExists" \notin last.inputs
    /\ data.template.image # None

\* C36: while the stages run in step_order and each one completes,
\* 'skull_stripping' is logged exactly when native.brain_mask is present,
\* 'registration' exactly when has_registration() is true, and
\* 'roi_extraction' exactly when template.roi_features is set.
C36_LogMatchesState ==
    followed.ok
    => /\ "skull_stripping" \in Range(steps) <=> data.native.brain_mask # None
       /\ "registration" \in Range(steps) <=> has_registration(data)
       /\ "roi_extraction" \in Range(steps)
          <=> data.template.roi_features # None

\* C36 witness: skull stripping and then registration completed, ROI
\* extraction has not run.
C36_Witness ==
    /\ followed.ok
    /\ last.op = "registration"
    /\ "skull_stripping" \in Range(steps)
    /\ data.native.brain_mask # None
    /\ data.template.image # None
    /\ data.template.roi_features = None

\* C37: in every state, template.image and the two transforms are all
\* present or all absent, so has_registration() is true exactly when the
\* forward transform is available.
C37_RegistrationAtomic ==
    /\ data.template.image # None
       <=> data.transforms.native_to_template # None
    /\ data.template.image # None
       <=> data.transforms.template_to_native # None
    /\ has_registration(data) <=> data.transforms.native_to_template # None

\* C37 witness: a stage completed on a container that an earlier stage had
\* registered.
C37_Witness ==
    /\ last.op \in {"roi_extraction", "quality_control"}
    /\ last.outcome = "returned"
    /\ "registration" \in Range(steps)
    /\ data.template.image # None
    /\ data.transforms.template_to_native # None

\* C38: while the stages run in step_order and each one completes, the
\* three tissue probability fields of a space are all present or all
\* absent, and once registration has completed a template probability field
\* is present exactly when the native field of that name is.
C38_TissueFieldsCoherent ==
    followed.ok
    => /\ \A f, g \in TissueFields :
            /\ data.native[f] # None <=> data.native[g] # None
            /\ data.template[f] # None <=> data.template[g] # None
       /\ "registration" \in Range(steps)
          => \A f \in TissueFields :
                 data.template[f] # None <=> data.native[f] # None

\* C38 witness: segmentation with three tissue maps and then registration
\* completed, in that order.
C38_Witness ==
    /\ followed.ok
    /\ last.op = "registration"
    /\ data.native.csf_probability # None
    /\ data.template.csf_probability # None

\* C39: when ROI extraction returns after stages run in step_order, each
\* completed, template.roi_features holds both 'gm_features' and
\* 'wm_features'.
C39_RoiFeaturesNotEmpty ==
    (/\ followed.ok
     /\ last.op = "roi_extraction")
    => /\ data.template.roi_features # None
       /\ {"gm_features", "wm_features"}
              \subseteq data.template.roi_features.names

\* C39 witness: segmentation, registration and ROI extraction completed in
\* step_order.
C39_Witness ==
    /\ followed.ok
    /\ last.op = "roi_extraction"
    /\ steps = <<"segmentation", "registration", "roi_extraction">>

\* C40: a segmentation run whose classifier returned fewer than three
\* probability images, on a container without tissue maps, returns with
\* 'segmentation' appended and has_segmentation() false, and an ROI
\* extraction run that follows raises ValueError and leaves the container
\* as it is.
C40_LoggedButNotSegmented ==
    [][(/\ last.op = "segmentation"
        /\ "fewOutputs" \in last.inputs
        /\ data.native.gm_probability = None
        /\ data.template.gm_probability = None)
       => /\ last.outcome = "returned"
          /\ steps[Len(steps)] = "segmentation"
          /\ data.native.segmentation_labels # None
          /\ ~has_segmentation(data)
          /\ (last'.op = "roi_extraction" /\ nCalls' # nCalls)
             => /\ last'.error = "ValueError"
                /\ data' = data
                /\ "segmentation" \in Range(steps')
                /\ "roi_extraction" \notin Range(steps')]_vars

\* C40 witness: on a registered container whose segmentation returned two
\* probability images, ROI extraction raised with its atlas in place.
C40_Witness ==
    /\ last.op = "roi_extraction"
    /\ last.error = "ValueError"
    /\ "atlasExists" \in last.inputs
    /\ steps = <<"registration", "segmentation">>
    /\ data.native.segmentation_labels # None
    /\ data.native.gm_probability = None

====
